---- MODULE Spec2Model ----
(***************************************************************************)
(* A model of LocalMusicDashboard: the Apple Music chart scraper           *)
(* (scrape_apple_100.py: the per-region fetch, the normalizing writer      *)
(* save_music_data_to_db and the region driver) and the sheet publisher's  *)
(* process boundary (update_music_gsheet.py).                              *)
(*                                                                         *)
(* Python values are modelled as follows.                                  *)
(*   - A display name (artist_name, song_title) is the sequence of the     *)
(*     code points of a Python str; <<>> stands for both None and "",      *)
(*     which the code never tells apart (both are falsy).  A name that the *)
(*     feed gives as a JSON number n (1..9) is the sequence <<-n>>.        *)
(*   - An external id (apple_song_id, apple_artist_id) and the other text  *)
(*     fields are TLA+ strings; None is the value NoneVal.                 *)
(*   - A raw genre id is a JSON value: a string (its characters), an       *)
(*     integer, a list, or null.                                           *)
(***************************************************************************)
EXTENDS Integers, Sequences, FiniteSets, TLC

VARIABLES
    Artists,        \* table Artists: rows [apple_artist_id, artist_name]
    Songs,          \* table Songs: rows [apple_song_id, song_title]
    MusicTop100,    \* table MusicTop100 (ChartEntry): rows with an autoincrement id
    Genres,         \* table Genres: rows [genre_id, genre_name, genre_url]
    MusicGenres,    \* table MusicGenres (SongGenre): rows [apple_song_id, genre_id]
    seenArtist,     \* history: artist id -> names observed on processed records
    seenSong,       \* history: song id -> titles observed on processed records
    lastBatch,      \* the batch of the latest observed call of the writer
    prior,          \* the store as that call found it
    phase,          \* "earlier": no call observed yet; "run"; "rerun"
    served,         \* the response a call of scrape_apple_music_charts meets
    scraped,        \* [called, records, raised]: what that call gave
    clock,          \* the calendar day, as an index into Days
    data_dir,       \* DATA_DIR: "present", "absent", "blocked" (cannot be made)
    key_file,       \* the service account key file exists
    sheet,          \* the spreadsheet exists and is shared
    drv_pc,         \* scraper process: "import", "loop", "finish", "exited"
    processed_regions,  \* regions visited by the driver loop
    all_scraped_data,   \* the driver's accumulated batch
    fetched,        \* history: the regions fetched, in order
    region_results, \* history: the records each fetch returned
    save_calls,     \* history: the batches handed to save_music_data_to_db
    drv_reported,   \* setup errors the scraper logged
    drv_exit,       \* exit status of the scraper (-1: still running)
    pub_pc,         \* publisher process: "start", "sheets", "returned", "exited"
    pub_idx,        \* query configs processed
    pub_written,    \* worksheets updated
    pub_reported,   \* errors the publisher's outer handlers logged
    pub_exit        \* exit status of the publisher (-1: still running)

storeVars == <<Artists, Songs, MusicTop100, Genres, MusicGenres>>
histVars == <<seenArtist, seenSong>>
runVars == <<lastBatch, prior, phase>>
scrapeVars == <<served, scraped>>
envVars == <<clock, data_dir, key_file, sheet>>
drvVars == <<drv_pc, processed_regions, all_scraped_data, fetched, region_results,
             save_calls, drv_reported, drv_exit>>
pubVars == <<pub_pc, pub_idx, pub_written, pub_reported, pub_exit>>

(***************************************************************************)
(* Program constants                                                       *)
(***************************************************************************)
PLATFORM_NAME_MUSIC == "AppleMusic"
EXCLUDE_GENRE_ID == 34

NoneVal == "<None>"

(***************************************************************************)
(* Python str comparison  a < b : by code point, a proper prefix first.    *)
(***************************************************************************)
MinOf(a, b) == IF a <= b THEN a ELSE b

PyStrLess(a, b) ==
    \E k \in 0..MinOf(Len(a), Len(b)) :
        /\ \A j \in 1..k : a[j] = b[j]
        /\ \/ k = Len(a) /\ k < Len(b)
           \/ k < Len(a) /\ k < Len(b) /\ a[k + 1] < b[k + 1]

(***************************************************************************)
(* Python truthiness of the values the writer tests with "if x"            *)
(***************************************************************************)
TruthyId(v) == v # NoneVal /\ v # ""
TruthyName(n) == n # <<>>

(***************************************************************************)
(* Names that are no str.  "name < existing_row[0]" raises TypeError for   *)
(* an int against a str; a column of TEXT affinity stores an int as the    *)
(* text of its decimal, so every stored name is a str.                     *)
(***************************************************************************)
JsonNumber(n) == <<0 - n>>
IsStr(name) == \A i \in 1..Len(name) : name[i] >= 0
SqlText(name) == IF IsStr(name) THEN name ELSE <<48 - name[1]>>

(***************************************************************************)
(* int(genre_id_str).  The result is [tag, val]: tag "ok" with the value,  *)
(* "ValueError" (a str that is no integer literal), or "TypeError" (a      *)
(* value int() does not accept, here a list).                              *)
(***************************************************************************)
DigitVal(c) ==
    CASE c = "0" -> 0 [] c = "1" -> 1 [] c = "2" -> 2 [] c = "3" -> 3
      [] c = "4" -> 4 [] c = "5" -> 5 [] c = "6" -> 6 [] c = "7" -> 7
      [] c = "8" -> 8 [] c = "9" -> 9 [] OTHER -> -1

IsDigit(c) == DigitVal(c) >= 0

RECURSIVE StripLeft(_)
StripLeft(s) == IF s # <<>> /\ Head(s) = " " THEN StripLeft(Tail(s)) ELSE s

RECURSIVE StripRight(_)
StripRight(s) ==
    IF s # <<>> /\ s[Len(s)] = " " THEN StripRight(SubSeq(s, 1, Len(s) - 1)) ELSE s

RECURSIVE DigitsValue(_, _)
DigitsValue(s, acc) ==
    IF s = <<>> THEN acc ELSE DigitsValue(Tail(s), 10 * acc + DigitVal(Head(s)))

PyIntOfStr(chars) ==
    LET s == StripRight(StripLeft(chars))
        signed == s # <<>> /\ Head(s) \in {"+", "-"}
        digits == IF signed THEN Tail(s) ELSE s
    IN  IF digits = <<>> \/ \E i \in 1..Len(digits) : ~IsDigit(digits[i])
        THEN [tag |-> "ValueError", val |-> 0]
        ELSE [tag |-> "ok",
              val |-> IF signed /\ Head(s) = "-"
                      THEN 0 - DigitsValue(digits, 0)
                      ELSE DigitsValue(digits, 0)]

PyInt(raw) ==
    CASE raw.kind = "str" -> PyIntOfStr(raw.chars)
      [] raw.kind = "int" -> [tag |-> "ok", val |-> raw.num]
      [] OTHER -> [tag |-> "TypeError", val |-> 0]

\* "not genre_id_str": None, "", 0 and [] are falsy.
TruthyRaw(raw) ==
    CASE raw.kind = "str" -> raw.chars # <<>>
      [] raw.kind = "int" -> raw.num # 0
      [] raw.kind = "list" -> TRUE
      [] OTHER -> FALSE

(***************************************************************************)
(* The store as one value, as a connection sees it inside a transaction.   *)
(***************************************************************************)
EmptyDb ==
    [Artists |-> {}, Songs |-> {}, MusicTop100 |-> {}, Genres |-> {}, MusicGenres |-> {}]

CurrentDb ==
    [Artists |-> Artists, Songs |-> Songs, MusicTop100 |-> MusicTop100,
     Genres |-> Genres, MusicGenres |-> MusicGenres]

(***************************************************************************)
(* Artist handling (MIN name logic): SELECT, then UPDATE if the new name   *)
(* sorts strictly before the stored one, or INSERT if there is no row.     *)
(***************************************************************************)
\* Overwrites the stored name with every later one (no comparison).
ArtistUpsert_Overwrite(db, id, name) ==
    IF TruthyId(id) /\ TruthyName(name)
    THEN [db EXCEPT !.Artists =
            {row \in db.Artists : row.apple_artist_id # id}
              \cup {[apple_artist_id |-> id, artist_name |-> SqlText(name)]}]
    ELSE db

ArtistUpsert(db, id, name) ==
    IF TruthyId(id) /\ TruthyName(name)
    THEN LET existing == {row \in db.Artists : row.apple_artist_id = id}
         IN  IF existing # {}
             THEN LET existing_row == CHOOSE row \in existing : TRUE
                  IN  IF PyStrLess(name, existing_row.artist_name)
                      THEN [db EXCEPT !.Artists =
                              {IF row.apple_artist_id = id
                               THEN [row EXCEPT !.artist_name = name]
                               ELSE row : row \in db.Artists}]
                      ELSE db
             ELSE [db EXCEPT !.Artists =
                     db.Artists \cup {[apple_artist_id |-> id,
                                       artist_name |-> SqlText(name)]}]
    ELSE db

\* The comparison at line 206 raises TypeError: there is a row for the id and
\* the new name is no str.  "except sqlite3.Error as e_artist" does not catch
\* it.
ArtistUpsertRaises(db, id, name) ==
    /\ TruthyId(id) /\ TruthyName(name)
    /\ \E row \in db.Artists : row.apple_artist_id = id
    /\ ~IsStr(name)

(***************************************************************************)
(* Song handling (MIN title logic), the same rule keyed by song id.        *)
(***************************************************************************)
SongUpsert(db, id, title) ==
    IF TruthyId(id) /\ TruthyName(title)
    THEN LET existing == {row \in db.Songs : row.apple_song_id = id}
         IN  IF existing # {}
             THEN LET existing_row == CHOOSE row \in existing : TRUE
                  IN  IF PyStrLess(title, existing_row.song_title)
                      THEN [db EXCEPT !.Songs =
                              {IF row.apple_song_id = id
                               THEN [row EXCEPT !.song_title = title]
                               ELSE row : row \in db.Songs}]
                      ELSE db
             ELSE [db EXCEPT !.Songs =
                     db.Songs \cup {[apple_song_id |-> id,
                                     song_title |-> SqlText(title)]}]
    ELSE db

\* The comparison at line 221 raises TypeError.
SongUpsertRaises(db, id, title) ==
    /\ TruthyId(id) /\ TruthyName(title)
    /\ \E row \in db.Songs : row.apple_song_id = id
    /\ ~IsStr(title)

(***************************************************************************)
(* INSERT OR IGNORE INTO MusicTop100.  The row is ignored when one of the  *)
(* NOT NULL columns is NULL or when UNIQUE(platform, region, rank, date)   *)
(* already holds a row with the same key.  id is AUTOINCREMENT.            *)
(***************************************************************************)
ChartKey(row) == <<row.platform, row.region, row.rank, row.date>>

NextChartId(db) ==
    IF db.MusicTop100 = {} THEN 1
    ELSE 1 + (CHOOSE m \in {row.id : row \in db.MusicTop100} :
                 \A row \in db.MusicTop100 : row.id <= m)

ChartRow(db, r) ==
    [id |-> NextChartId(db), platform |-> r.platform, region |-> r.region,
     rank |-> r.rank, apple_song_id |-> r.apple_song_id,
     apple_artist_id |-> r.apple_artist_id, release_date |-> r.release_date,
     artwork_url |-> r.artwork_url, song_url |-> r.song_url, date |-> r.date]

\* A plain INSERT OR REPLACE: the later record takes the key's row.
InsertOrIgnoreChart_Replace(db, r) ==
    IF r.platform = NoneVal \/ r.region = NoneVal \/ r.date = NoneVal
    THEN db
    ELSE [db EXCEPT !.MusicTop100 =
            {row \in db.MusicTop100 : ChartKey(row) # ChartKey(r)}
              \cup {ChartRow(db, r)}]

InsertOrIgnoreChart(db, r) ==
    IF r.platform = NoneVal \/ r.region = NoneVal \/ r.date = NoneVal
    THEN db
    ELSE IF \E row \in db.MusicTop100 : ChartKey(row) = ChartKey(r)
         THEN db
         ELSE [db EXCEPT !.MusicTop100 = db.MusicTop100 \cup {ChartRow(db, r)}]

(***************************************************************************)
(* INSERT OR IGNORE INTO Genres: ignored on a conflict with the primary    *)
(* key genre_id or with UNIQUE genre_name.                                 *)
(***************************************************************************)
InsertOrIgnoreGenre(db, genre_id, genre_name, genre_url) ==
    IF \E g \in db.Genres : g.genre_id = genre_id \/ g.genre_name = genre_name
    THEN db
    ELSE [db EXCEPT !.Genres = db.Genres \cup
            {[genre_id |-> genre_id, genre_name |-> genre_name, genre_url |-> genre_url]}]

(***************************************************************************)
(* INSERT OR IGNORE INTO MusicGenres with foreign_keys = ON: a conflict    *)
(* with the primary key is ignored; a genre_id with no row in Genres       *)
(* violates the foreign key, which OR IGNORE does not cover: the statement *)
(* raises sqlite3.IntegrityError, caught by "except sqlite3.Error as       *)
(* e_genre", and inserts nothing.                                          *)
(***************************************************************************)
\* Foreign keys not enforced (PRAGMA foreign_keys left OFF).
InsertOrIgnoreLink_NoFk(db, song_id, genre_id) ==
    [db EXCEPT !.MusicGenres = db.MusicGenres \cup
        {[apple_song_id |-> song_id, genre_id |-> genre_id]}]

InsertOrIgnoreLink(db, song_id, genre_id) ==
    IF \E g \in db.Genres : g.genre_id = genre_id
    THEN [db EXCEPT !.MusicGenres = db.MusicGenres \cup
            {[apple_song_id |-> song_id, genre_id |-> genre_id]}]
    ELSE db

(***************************************************************************)
(* One genre tag (the body of "for genre_dict in genres_list").  The       *)
(* result is [db, escaped]: escaped is TRUE when an exception that neither *)
(* "except ValueError" nor "except sqlite3.Error" catches leaves the loop  *)
(* for the record's "except Exception as e_rec".                           *)
(***************************************************************************)
\* Links every genre, the sentinel included.
LinkUnlessExcluded_LinkAll(db, song_id, genre_id) ==
    InsertOrIgnoreLink(db, song_id, genre_id)

LinkUnlessExcluded(db, song_id, genre_id) ==
    IF genre_id # EXCLUDE_GENRE_ID
    THEN InsertOrIgnoreLink(db, song_id, genre_id)
    ELSE db

ProcessGenreTag(db, song_id, tag) ==
    IF ~tag.isdict THEN [db |-> db, escaped |-> FALSE]
    ELSE IF ~TruthyRaw(tag.genreId) \/ tag.name = ""
    THEN [db |-> db, escaped |-> FALSE]
    ELSE LET parsed == PyInt(tag.genreId)
         IN  CASE parsed.tag = "ValueError" -> [db |-> db, escaped |-> FALSE]
               [] parsed.tag = "TypeError" -> [db |-> db, escaped |-> TRUE]
               [] OTHER ->
                    [db |-> LinkUnlessExcluded(
                              InsertOrIgnoreGenre(db, parsed.val, tag.name, tag.url),
                              song_id, parsed.val),
                     escaped |-> FALSE]

RECURSIVE GenreLoop(_, _, _)
GenreLoop(db, song_id, tags) ==
    IF tags = <<>> THEN db
    ELSE LET step == ProcessGenreTag(db, song_id, Head(tags))
         IN  IF step.escaped THEN step.db
             ELSE GenreLoop(step.db, song_id, Tail(tags))

(***************************************************************************)
(* One record (the body of "for r in records").  The result is             *)
(* [db, aborted]: the artist and song handling stand outside the record's  *)
(* own try block (line 238), so a TypeError raised there leaves the record *)
(* loop for the "except Exception" of the whole save (line 287).           *)
(***************************************************************************)
ProcessGenres(db, r) ==
    IF TruthyId(r.apple_song_id) /\ r.parsed_genres.islist
    THEN GenreLoop(db, r.apple_song_id, r.parsed_genres.items)
    ELSE db

ProcessRecord(db, r) ==
    IF ArtistUpsertRaises(db, r.apple_artist_id, r.artist_name)
    THEN [db |-> db, aborted |-> TRUE]
    ELSE LET afterArtist == ArtistUpsert(db, r.apple_artist_id, r.artist_name)
         IN  IF SongUpsertRaises(afterArtist, r.apple_song_id, r.song_title)
             THEN [db |-> afterArtist, aborted |-> TRUE]
             ELSE LET afterSong == SongUpsert(afterArtist, r.apple_song_id,
                                              r.song_title)
                      afterChart == InsertOrIgnoreChart(afterSong, r)
                  IN  [db |-> ProcessGenres(afterChart, r), aborted |-> FALSE]

RECURSIVE RecordLoop(_, _)
RecordLoop(db, records) ==
    IF records = <<>> THEN [db |-> db, aborted |-> FALSE]
    ELSE LET step == ProcessRecord(db, Head(records))
         IN  IF step.aborted THEN step
             ELSE RecordLoop(step.db, Tail(records))

(***************************************************************************)
(* save_music_data_to_db(records, db_path): the store it leaves behind.    *)
(* It returns at once for an empty batch and for a missing database        *)
(* directory; otherwise it processes the records in order and commits.  An *)
(* exception that leaves the record loop is caught at line 287, which      *)
(* rolls the transaction back: the store is as the call found it.          *)
(***************************************************************************)
save_music_data_to_db(db, records, db_dir_exists) ==
    IF records = <<>> THEN db
    ELSE IF ~db_dir_exists THEN db
    ELSE LET out == RecordLoop(db, records)
         IN  IF out.aborted THEN db ELSE out.db

(***************************************************************************)
(* scrape_apple_music_charts(region).  A response is what requests.get and *)
(* response.json() give:                                                   *)
(*   net   "ok", or the failure of the request: "Timeout",                 *)
(*         "ConnectionError", "HTTPError" (raise_for_status)               *)
(*   json  "object" (a JSON object), "other" (any other JSON value: a      *)
(*         list, a string, a number, null), "invalid" (no JSON)            *)
(*   feed  [kind, results]: kind "absent", "emptydict", "nondict", "dict"  *)
(*         results [kind, items]: kind "absent", "nonlist", "list"         *)
(* An entry of results is [isdict, ...] with the fields of a song object.  *)
(***************************************************************************)
MAX_RESULTS_KEPT == 100

\* Exception classes and their bases, as far as the except clauses tell
\* them apart.
IsA(exc, cls) ==
    \/ exc = cls
    \/ cls = "Exception"
    \/ cls = "RequestException" /\ exc \in {"Timeout", "ConnectionError", "HTTPError"}

\* The except clauses without the closing "except Exception".
ExceptClauses_NoCatchAll == <<"Timeout", "RequestException", "JSONDecodeError">>

ExceptClauses == <<"Timeout", "RequestException", "JSONDecodeError", "Exception">>

Caught(exc) == \E c \in 1..Len(ExceptClauses) : IsA(exc, ExceptClauses[c])

\* results[:100]
FirstEntries(results) ==
    SubSeq(results, 1, MinOf(Len(results), MAX_RESULTS_KEPT))

FlatRecord(region, rank, song_data, today) ==
    [platform |-> PLATFORM_NAME_MUSIC, region |-> region, rank |-> rank,
     song_title |-> song_data.name, artist_name |-> song_data.artistName,
     apple_song_id |-> song_data.id, apple_artist_id |-> song_data.artistId,
     release_date |-> song_data.releaseDate, artwork_url |-> song_data.artworkUrl100,
     parsed_genres |-> song_data.genres, song_url |-> song_data.url,
     date |-> today]

\* The rank is the number of records kept so far plus one.
FlattenLoop_RankByKept(region, entries, today) ==
    LET kept == {i \in 1..Len(entries) : entries[i].isdict}
    IN  [k \in 1..Cardinality(kept) |->
            LET i == CHOOSE i \in kept : Cardinality({j \in kept : j <= i}) = k
            IN  FlatRecord(region, k, entries[i], today)]

\* for i, song_data in enumerate(results[:100]): rank = i + 1; an entry that
\* is no object is skipped, the others are appended in order.  (Written
\* without recursion: the k-th record is made from the k-th entry that is an
\* object, at its 1-based position i.)
FlattenLoop(region, entries, today) ==
    LET kept == {i \in 1..Len(entries) : entries[i].isdict}
    IN  [k \in 1..Cardinality(kept) |->
            LET i == CHOOSE i \in kept : Cardinality({j \in kept : j <= i}) = k
            IN  FlatRecord(region, i, entries[i], today)]

\* The try block: [records, exc], exc the exception it raises ("none": it
\* completes or returns).
TryBody(region, response, today) ==
    CASE response.net # "ok" -> [records |-> <<>>, exc |-> response.net]
      [] response.json = "invalid" -> [records |-> <<>>, exc |-> "JSONDecodeError"]
      [] response.json = "other" -> [records |-> <<>>, exc |-> "AttributeError"]
      [] response.feed.kind # "dict" -> [records |-> <<>>, exc |-> "none"]
      [] response.feed.results.kind # "list" \/ response.feed.results.items = <<>>
            -> [records |-> <<>>, exc |-> "none"]
      [] OTHER ->
            [records |-> FlattenLoop(region, FirstEntries(response.feed.results.items),
                                     today),
             exc |-> "none"]

\* The call: [records, raised], raised the exception that escapes to the
\* caller ("none" when the function returns).
scrape_apple_music_charts(region, response, today) ==
    LET body == TryBody(region, response, today)
    IN  IF body.exc = "none" \/ Caught(body.exc)
        THEN [records |-> body.records, raised |-> "none"]
        ELSE [records |-> <<>>, raised |-> body.exc]

(***************************************************************************)
(* Input universes of the writer: flat records as the fetch produces them. *)
(***************************************************************************)
MaxBatch == 2      \* records in one batch
MaxTags == 2       \* genre tags on one record

Abba == <<65, 98, 98, 97>>
Ab == <<65, 98>>
Zed == <<90, 101, 100>>

SeqsUpTo(S, n) == UNION {[1..k -> S] : k \in 0..n}
BatchesOver(S) == UNION {[1..k -> S] : k \in 1..MaxBatch}

GenreList(tags) == [islist |-> TRUE, items |-> tags]

BaseRecord ==
    [platform |-> PLATFORM_NAME_MUSIC, region |-> "us", rank |-> 1,
     song_title |-> <<>>, artist_name |-> <<>>,
     apple_song_id |-> NoneVal, apple_artist_id |-> NoneVal,
     release_date |-> NoneVal, artwork_url |-> NoneVal,
     parsed_genres |-> GenreList(<<>>), song_url |-> NoneVal,
     date |-> "2025-01-01"]

\* Records that vary the artist id and name, or the song id and title.
NameRecords ==
    {[BaseRecord EXCEPT !.apple_artist_id = a, !.artist_name = n] :
        a \in {"a1", "a2"}, n \in {Abba, Ab, Zed, <<>>}}
    \cup {[BaseRecord EXCEPT !.apple_song_id = "s1", !.song_title = t] :
        t \in {Abba, Ab, Zed, <<>>}}
    \cup {[BaseRecord EXCEPT !.artist_name = Ab],
          [BaseRecord EXCEPT !.song_title = Ab],
          [BaseRecord EXCEPT !.apple_artist_id = "a1", !.artist_name = Zed,
                             !.apple_song_id = "s1", !.song_title = Abba]}

\* Records that vary the chart key and what the row carries.
ChartRecords ==
    {[BaseRecord EXCEPT !.rank = k, !.date = d,
                        !.apple_song_id = p[1], !.apple_artist_id = p[2],
                        !.song_title = Zed, !.artist_name = Zed,
                        !.song_url = p[3]] :
        k \in {1, 2}, d \in {"2025-01-01", "2025-01-02"},
        p \in {<<"s1", "a1", "u1">>, <<"s2", "a2", "u2">>}}
    \cup {[BaseRecord EXCEPT !.region = NoneVal, !.apple_song_id = "s1"],
          [BaseRecord EXCEPT !.date = NoneVal, !.apple_song_id = "s2"]}

\* Raw genre ids and tags.
RawStr(chars) == [kind |-> "str", chars |-> chars, num |-> 0]
RawInt(n) == [kind |-> "int", chars |-> <<>>, num |-> n]
RawList == [kind |-> "list", chars |-> <<>>, num |-> 0]
RawNull == [kind |-> "null", chars |-> <<>>, num |-> 0]

Tag(raw, name) == [isdict |-> TRUE, genreId |-> raw, name |-> name, url |-> "u"]
NonDictTag == [isdict |-> FALSE, genreId |-> RawNull, name |-> "", url |-> NoneVal]

TagMusic34 == Tag(RawStr(<<"3", "4">>), "Music")
TagMusic6 == Tag(RawStr(<<"6">>), "Music")
TagJazz6 == Tag(RawStr(<<"6">>), "Jazz")
TagBadStr == Tag(RawStr(<<"x", "7">>), "Rock")
TagBadType == Tag(RawList, "Rock")

MainTags == {TagMusic34, TagMusic6, TagJazz6, TagBadStr, TagBadType}

\* Other shapes of a tag the loop tells apart: an integer id, a padded and
\* signed literal, a missing id or name, a tag that is no object.
OddTagLists ==
    {<<Tag(RawInt(34), "Music")>>, <<Tag(RawStr(<<" ", "+", "3", "4", " ">>), "Music")>>,
     <<Tag(RawStr(<<"7">>), "")>>, <<Tag(RawNull, "Rock")>>, <<Tag(RawInt(0), "Rock")>>,
     <<NonDictTag, TagJazz6>>, <<Tag(RawStr(<<"-", "7">>), "Rock")>>}

GenreRecords ==
    {[BaseRecord EXCEPT !.apple_song_id = s, !.parsed_genres = GenreList(tags)] :
        s \in {"s1", "s2"}, tags \in SeqsUpTo(MainTags, MaxTags)}
    \cup {[BaseRecord EXCEPT !.parsed_genres = GenreList(tags)] :
        tags \in {<<TagMusic34>>, <<TagJazz6>>, <<TagJazz6, TagMusic34>>}}
    \cup {[BaseRecord EXCEPT !.apple_song_id = "s1", !.parsed_genres = GenreList(tags)] :
        tags \in OddTagLists}
    \cup {[BaseRecord EXCEPT !.apple_song_id = "s1",
                             !.parsed_genres = [islist |-> FALSE, items |-> <<TagJazz6>>]]}

\* Records that carry everything at once: an artist and a song whose names
\* are text or a JSON number, a chart key, and genre tags.
MixedRecords ==
    {[BaseRecord EXCEPT !.rank = k,
                        !.apple_artist_id = "a1", !.artist_name = n,
                        !.apple_song_id = "s1", !.song_title = Zed,
                        !.parsed_genres = GenreList(tags)] :
        k \in {1, 2}, n \in {Abba, Zed, JsonNumber(5)},
        tags \in {<<TagJazz6>>, <<TagBadType, TagMusic6>>}}
    \cup {[BaseRecord EXCEPT !.rank = k,
                             !.apple_artist_id = "a1", !.artist_name = Zed,
                             !.apple_song_id = "s1", !.song_title = t,
                             !.parsed_genres = GenreList(<<TagJazz6>>)] :
        k \in {1, 2}, t \in {Ab, JsonNumber(7)}}

(***************************************************************************)
(* The names observed for an id: those of the processed records that carry *)
(* both the id and a name.                                                 *)
(***************************************************************************)
ArtistIds == {"a1", "a2"}
SongIds == {"s1", "s2"}

ObservedArtistNames(records, id) ==
    {records[i].artist_name : i \in {j \in 1..Len(records) :
        records[j].apple_artist_id = id /\ records[j].artist_name # <<>>}}

ObservedSongTitles(records, id) ==
    {records[i].song_title : i \in {j \in 1..Len(records) :
        records[j].apple_song_id = id /\ records[j].song_title # <<>>}}

(***************************************************************************)
(* The writer as an action: one call of save_music_data_to_db on a batch,  *)
(* committed.  The store is a file of the data directory, so where there   *)
(* is a store the directory exists.                                        *)
(***************************************************************************)
InitStore ==
    /\ Artists = {} /\ Songs = {} /\ MusicTop100 = {}
    /\ Genres = {} /\ MusicGenres = {}
    /\ seenArtist = [id \in ArtistIds |-> {}]
    /\ seenSong = [id \in SongIds |-> {}]
    /\ lastBatch = <<>>
    /\ prior = EmptyDb
    /\ phase = "earlier"

Commit(db) ==
    /\ Artists' = db.Artists
    /\ Songs' = db.Songs
    /\ MusicTop100' = db.MusicTop100
    /\ Genres' = db.Genres
    /\ MusicGenres' = db.MusicGenres

Save(batch) ==
    /\ Commit(save_music_data_to_db(CurrentDb, batch, TRUE))
    /\ seenArtist' = [id \in ArtistIds |->
                        seenArtist[id] \cup ObservedArtistNames(batch, id)]
    /\ seenSong' = [id \in SongIds |->
                        seenSong[id] \cup ObservedSongTitles(batch, id)]

(***************************************************************************)
(* Responses and result lists for the fetch.                               *)
(***************************************************************************)
MaxResults == 3    \* length of the enumerated result lists
MaxOver == 2       \* entries beyond the 100 kept, in the long result lists
NumRegions == 2    \* region codes the driver visits (a prefix of REGION_CODES)
MaxTicks == 1      \* midnights that pass during one run of the driver

Days == <<"2025-01-01", "2025-01-02", "2025-01-03">>
Today == Days[clock + 1]

REGION_CODES == SubSeq(<<"dz", "ao", "ai", "ag">>, 1, NumRegions)

SongEntry(id, name, artistId, artistName, tags) ==
    [isdict |-> TRUE, id |-> id, name |-> name, artistId |-> artistId,
     artistName |-> artistName, releaseDate |-> "2024-05-01",
     artworkUrl100 |-> "art", genres |-> GenreList(tags), url |-> "url"]

\* An entry of results that is no object (a number, a string, null).
NonDictEntry ==
    [isdict |-> FALSE, id |-> NoneVal, name |-> <<>>, artistId |-> NoneVal,
     artistName |-> <<>>, releaseDate |-> NoneVal, artworkUrl100 |-> NoneVal,
     genres |-> GenreList(<<>>), url |-> NoneVal]

EntryA == SongEntry("s1", Zed, "a1", Abba, <<TagJazz6, TagMusic34>>)
EntryB == SongEntry("s2", Abba, "a1", Ab, <<>>)
\* The i-th entry of a long list.
EntryNo(i) == SongEntry(ToString(i), Zed, NoneVal, <<>>, <<>>)

ResultLists ==
    SeqsUpTo({EntryA, EntryB, NonDictEntry}, MaxResults)
    \cup {[i \in 1..n |-> IF i \in bad THEN NonDictEntry ELSE EntryNo(i)] :
            n \in (MAX_RESULTS_KEPT - 1)..(MAX_RESULTS_KEPT + MaxOver),
            bad \in {{}, {1}, {MAX_RESULTS_KEPT}, {2, MAX_RESULTS_KEPT + 1}}}

NoResults == [kind |-> "absent", items |-> <<>>]
Feed(kind, results) == [kind |-> kind, results |-> results]
Response(net, json, feed) == [net |-> net, json |-> json, feed |-> feed]

RespList(items) ==
    Response("ok", "object", Feed("dict", [kind |-> "list", items |-> items]))
RespNoResultsKey == Response("ok", "object", Feed("dict", NoResults))
RespTimeout == Response("Timeout", "invalid", Feed("absent", NoResults))

\* Responses that carry no usable result list, or fail.
FailedResponses ==
    {Response(net, "invalid", Feed("absent", NoResults)) :
        net \in {"Timeout", "ConnectionError", "HTTPError", "ok"}}
    \cup {Response("ok", "other", Feed("absent", NoResults))}
    \cup {Response("ok", "object", Feed(k, NoResults)) :
            k \in {"absent", "emptydict", "nondict", "dict"}}
    \cup {Response("ok", "object", Feed("dict", [kind |-> "nonlist", items |-> <<>>]))}

Responses == FailedResponses \cup {RespList(items) : items \in ResultLists}

NotCalled == [called |-> FALSE, records |-> <<>>, raised |-> "none"]

(***************************************************************************)
(* Initial states of the parts, and the parts at rest.                     *)
(***************************************************************************)
ScrapeIdle == served = RespTimeout /\ scraped = NotCalled

EnvIdle == clock = 0 /\ data_dir = "present" /\ key_file = TRUE /\ sheet = TRUE

JobsIdle ==
    /\ drv_pc = "import" /\ processed_regions = 0 /\ all_scraped_data = <<>>
    /\ fetched = <<>> /\ region_results = <<>> /\ save_calls = <<>>
    /\ drv_reported = {} /\ drv_exit = -1
    /\ pub_pc = "start" /\ pub_idx = 0 /\ pub_written = {}
    /\ pub_reported = {} /\ pub_exit = -1

vars == <<storeVars, histVars, runVars, scrapeVars, envVars, drvVars, pubVars>>

InitWriter == InitStore /\ ScrapeIdle /\ EnvIdle /\ JobsIdle

(***************************************************************************)
(* The writer called over the name records and over the chart records.     *)
(***************************************************************************)
SaveNames ==
    /\ \E batch \in BatchesOver(NameRecords) : Save(batch)
    /\ UNCHANGED <<runVars, scrapeVars, envVars, drvVars, pubVars>>

SaveCharts ==
    /\ \E batch \in BatchesOver(ChartRecords) : Save(batch)
    /\ UNCHANGED <<runVars, scrapeVars, envVars, drvVars, pubVars>>

SpecNames == InitWriter /\ [][SaveNames]_vars
SpecCharts == InitWriter /\ [][SaveCharts]_vars

(***************************************************************************)
(* The writer called over the genre records: any number of earlier calls,  *)
(* then one call whose batch and starting store are kept for observation,  *)
(* then calls that repeat that batch.                                      *)
(***************************************************************************)
EarlierRun ==
    /\ phase = "earlier"
    /\ \E batch \in BatchesOver(GenreRecords) : Save(batch)
    /\ UNCHANGED <<runVars, scrapeVars, envVars, drvVars, pubVars>>

Run ==
    /\ phase = "earlier"
    /\ \E batch \in BatchesOver(GenreRecords) : Save(batch) /\ lastBatch' = batch
    /\ prior' = CurrentDb
    /\ phase' = "run"
    /\ UNCHANGED <<scrapeVars, envVars, drvVars, pubVars>>

Rerun ==
    /\ phase \in {"run", "rerun"}
    /\ Save(lastBatch)
    /\ prior' = CurrentDb
    /\ phase' = "rerun"
    /\ UNCHANGED <<lastBatch, scrapeVars, envVars, drvVars, pubVars>>

Next == EarlierRun \/ Run \/ Rerun

Spec == InitWriter /\ [][Next]_vars

(***************************************************************************)
(* The writer called over the mixed records: earlier calls, then one call  *)
(* whose batch and starting store are kept for observation.                *)
(***************************************************************************)
EarlierSave ==
    /\ phase = "earlier"
    /\ \E batch \in BatchesOver(MixedRecords) : Save(batch)
    /\ UNCHANGED <<runVars, scrapeVars, envVars, drvVars, pubVars>>

ObservedSave ==
    /\ phase = "earlier"
    /\ \E batch \in BatchesOver(MixedRecords) : Save(batch) /\ lastBatch' = batch
    /\ prior' = CurrentDb
    /\ phase' = "run"
    /\ UNCHANGED <<scrapeVars, envVars, drvVars, pubVars>>

NextMixed == EarlierSave \/ ObservedSave

SpecMixed == InitWriter /\ [][NextMixed]_vars

(***************************************************************************)
(* One call of scrape_apple_music_charts on any response.                  *)
(***************************************************************************)
InitScrape ==
    /\ InitStore /\ EnvIdle /\ JobsIdle
    /\ served \in Responses
    /\ scraped = NotCalled

Scrape ==
    /\ ~scraped.called
    /\ \E region \in {"dz", "us"} :
          LET out == scrape_apple_music_charts(region, served, Today)
          IN  scraped' = [called |-> TRUE, records |-> out.records,
                          raised |-> out.raised]
    /\ UNCHANGED <<served, storeVars, histVars, runVars, envVars, drvVars, pubVars>>

SpecScrape == InitScrape /\ [][Scrape]_vars

(***************************************************************************)
(* The two batch jobs as processes.                                        *)
(*                                                                         *)
(* The scraper: the module-level os.makedirs(DATA_DIR), the region loop of *)
(* __main__, the single call of the writer, sys.exit(0).  The calendar day *)
(* may change and the data directory may be removed while it runs.         *)
(*                                                                         *)
(* The publisher: update_multiple_google_sheets (the setup, then one step  *)
(* per query config) and sys.exit(0).                                      *)
(***************************************************************************)
QUERY_CONFIGS ==
    <<"MusicChartsWithGenres", "DailyRankChanges", "WeeklyRankChanges", "RegionNames">>

\* What one region may answer in the driver's runs.
DriverResponses ==
    {RespTimeout, RespNoResultsKey, RespList(<<EntryA>>), RespList(<<NonDictEntry, EntryB>>)}

InitJobs ==
    /\ InitStore /\ ScrapeIdle /\ JobsIdle
    /\ clock = 0
    /\ data_dir \in {"present", "absent", "blocked"}
    /\ key_file \in BOOLEAN
    /\ sheet \in BOOLEAN

\* try: os.makedirs(DATA_DIR, exist_ok=True) except OSError: ... exit(1)
ImportModule ==
    /\ drv_pc = "import"
    /\ IF data_dir = "blocked"
       THEN /\ drv_reported' = drv_reported \cup {"data_dir"}
            /\ drv_exit' = 1
            /\ drv_pc' = "exited"
            /\ UNCHANGED data_dir
       ELSE /\ data_dir' = "present"
            /\ drv_pc' = "loop"
            /\ UNCHANGED <<drv_reported, drv_exit>>
    /\ UNCHANGED <<processed_regions, all_scraped_data, fetched, region_results,
                   save_calls, clock, key_file, sheet,
                   storeVars, histVars, runVars, scrapeVars, pubVars>>

\* The loop stops at the first region that returns no data.
FetchRegion_StopOnEmpty ==
    /\ drv_pc = "loop"
    /\ processed_regions < Len(REGION_CODES)
    /\ \E resp \in DriverResponses :
          LET region == REGION_CODES[processed_regions + 1]
              out == scrape_apple_music_charts(region, resp, Today)
          IN  /\ fetched' = Append(fetched, region)
              /\ region_results' = Append(region_results, out.records)
              /\ all_scraped_data' = all_scraped_data \o out.records
              /\ processed_regions' =
                    IF out.records = <<>> THEN Len(REGION_CODES)
                    ELSE processed_regions + 1
              /\ UNCHANGED <<drv_pc, drv_exit>>
    /\ UNCHANGED <<save_calls, drv_reported, envVars,
                   storeVars, histVars, runVars, scrapeVars, pubVars>>

\* One turn of "for region in REGION_CODES": the fetch, then extend.  An
\* exception escaping the fetch would end the process with status 1.
FetchRegion ==
    /\ drv_pc = "loop"
    /\ processed_regions < Len(REGION_CODES)
    /\ \E resp \in DriverResponses :
          LET region == REGION_CODES[processed_regions + 1]
              out == scrape_apple_music_charts(region, resp, Today)
          IN  /\ processed_regions' = processed_regions + 1
              /\ fetched' = Append(fetched, region)
              /\ IF out.raised # "none"
                 THEN /\ drv_pc' = "exited" /\ drv_exit' = 1
                      /\ UNCHANGED <<region_results, all_scraped_data>>
                 ELSE /\ region_results' = Append(region_results, out.records)
                      /\ all_scraped_data' =
                            IF out.records # <<>>
                            THEN all_scraped_data \o out.records
                            ELSE all_scraped_data
                      /\ UNCHANGED <<drv_pc, drv_exit>>
    /\ UNCHANGED <<save_calls, drv_reported, envVars,
                   storeVars, histVars, runVars, scrapeVars, pubVars>>

\* After the loop: "if all_scraped_data: save_music_data_to_db(...)".  The
\* writer logs an error and returns when the database directory is missing.
SaveAll ==
    /\ drv_pc = "loop"
    /\ processed_regions = Len(REGION_CODES)
    /\ drv_pc' = "finish"
    /\ IF all_scraped_data # <<>>
       THEN /\ save_calls' = Append(save_calls, all_scraped_data)
            /\ Commit(save_music_data_to_db(CurrentDb, all_scraped_data,
                                            data_dir = "present"))
            /\ drv_reported' = IF data_dir = "present" THEN drv_reported
                               ELSE drv_reported \cup {"data_dir"}
            /\ seenArtist' = [id \in ArtistIds |->
                  IF data_dir = "present"
                  THEN seenArtist[id] \cup ObservedArtistNames(all_scraped_data, id)
                  ELSE seenArtist[id]]
            /\ seenSong' = [id \in SongIds |->
                  IF data_dir = "present"
                  THEN seenSong[id] \cup ObservedSongTitles(all_scraped_data, id)
                  ELSE seenSong[id]]
       ELSE UNCHANGED <<save_calls, drv_reported, storeVars, histVars>>
    /\ UNCHANGED <<processed_regions, all_scraped_data, fetched, region_results,
                   drv_exit, envVars, runVars, scrapeVars, pubVars>>

\* sys.exit(0)
ExitScraper ==
    /\ drv_pc = "finish"
    /\ drv_pc' = "exited"
    /\ drv_exit' = 0
    /\ UNCHANGED <<processed_regions, all_scraped_data, fetched, region_results,
                   save_calls, drv_reported, envVars,
                   storeVars, histVars, runVars, scrapeVars, pubVars>>

\* Midnight passes while the driver loops (it sleeps between regions).
Tick ==
    /\ drv_pc = "loop"
    /\ clock < MaxTicks
    /\ clock' = clock + 1
    /\ UNCHANGED <<data_dir, key_file, sheet, drvVars,
                   storeVars, histVars, runVars, scrapeVars, pubVars>>

\* The data directory is removed while the driver loops.
RemoveDataDir ==
    /\ drv_pc = "loop"
    /\ data_dir = "present"
    /\ data_dir' = "absent"
    /\ UNCHANGED <<clock, key_file, sheet, drvVars,
                   storeVars, histVars, runVars, scrapeVars, pubVars>>

\* The setup of update_multiple_google_sheets: the credentials, the
\* spreadsheet, the database connection.  Each failure is caught by an outer
\* except clause, logged, and the function returns.
PubSetup ==
    /\ pub_pc = "start"
    /\ CASE ~key_file ->
              pub_reported' = pub_reported \cup {"key_file"} /\ pub_pc' = "returned"
         [] key_file /\ ~sheet ->
              pub_reported' = pub_reported \cup {"spreadsheet"} /\ pub_pc' = "returned"
         [] key_file /\ sheet /\ data_dir # "present" ->
              pub_reported' = pub_reported \cup {"data_dir"} /\ pub_pc' = "returned"
         [] OTHER ->
              pub_pc' = "sheets" /\ UNCHANGED pub_reported
    /\ UNCHANGED <<pub_idx, pub_written, pub_exit, envVars, drvVars,
                   storeVars, histVars, runVars, scrapeVars>>

\* One query config.  "ok": the worksheet is written.  "logged": a
\* sqlite3.Error or gspread APIError, caught and logged, the loop goes on.
\* "other": any other exception reaches "except requests.exceptions...."; the
\* module never imports requests, so the clause raises NameError, which the
\* outer "except Exception" catches: the remaining configs are dropped.
PubWorksheet ==
    /\ pub_pc = "sheets"
    /\ pub_idx < Len(QUERY_CONFIGS)
    /\ \E outcome \in {"ok", "logged", "other"} :
          /\ pub_written' = IF outcome = "ok"
                            THEN pub_written \cup {QUERY_CONFIGS[pub_idx + 1]}
                            ELSE pub_written
          /\ pub_idx' = pub_idx + 1
          /\ pub_pc' = IF outcome = "other" THEN "returned" ELSE "sheets"
          /\ pub_reported' = IF outcome = "other"
                             THEN pub_reported \cup {"critical"}
                             ELSE pub_reported
    /\ UNCHANGED <<pub_exit, envVars, drvVars,
                   storeVars, histVars, runVars, scrapeVars>>

PubLoopDone ==
    /\ pub_pc = "sheets"
    /\ pub_idx = Len(QUERY_CONFIGS)
    /\ pub_pc' = "returned"
    /\ UNCHANGED <<pub_idx, pub_written, pub_reported, pub_exit, envVars, drvVars,
                   storeVars, histVars, runVars, scrapeVars>>

\* sys.exit(0)
ExitPublisher ==
    /\ pub_pc = "returned"
    /\ pub_pc' = "exited"
    /\ pub_exit' = 0
    /\ UNCHANGED <<pub_idx, pub_written, pub_reported, envVars, drvVars,
                   storeVars, histVars, runVars, scrapeVars>>

NextJobs ==
    \/ ImportModule \/ FetchRegion \/ SaveAll \/ ExitScraper
    \/ Tick \/ RemoveDataDir
    \/ PubSetup \/ PubWorksheet \/ PubLoopDone \/ ExitPublisher

SpecJobs == InitJobs /\ [][NextJobs]_vars

(***************************************************************************)
(* Properties of the normalizing writer                                    *)
(***************************************************************************)

\* Ordinal (code point) lexicographic order on names, a <= b.
RECURSIVE LexLeq(_, _)
LexLeq(a, b) ==
    IF a = <<>> THEN TRUE
    ELSE IF b = <<>> THEN FALSE
    ELSE IF Head(a) # Head(b) THEN Head(a) < Head(b)
    ELSE LexLeq(Tail(a), Tail(b))

IsLeastOf(n, S) == n \in S /\ \A m \in S : LexLeq(n, m)

RecZed == [BaseRecord EXCEPT !.apple_artist_id = "a1", !.artist_name = Zed]
RecAbba == [BaseRecord EXCEPT !.apple_artist_id = "a1", !.artist_name = Abba]

\* C1, the part that holds (SpecNames: every name of every batch is text):
\* after any sequence of calls of the writer, the name stored for an artist
\* id is the lexicographically smallest of the names observed so far for
\* that id, and there is no row for an id with no observed name; the same
\* holds of the title stored for a song id.  In particular "Zed" then "Abba"
\* and "Abba" then "Zed" for one id both leave "Abba".
C1_StoredNameIsLeastObserved ==
    /\ \A row \in Artists : row.apple_artist_id \in ArtistIds
    /\ \A id \in ArtistIds :
          LET rows == {row \in Artists : row.apple_artist_id = id}
          IN  IF seenArtist[id] = {} THEN rows = {}
              ELSE \E n \in seenArtist[id] :
                      /\ rows = {[apple_artist_id |-> id, artist_name |-> n]}
                      /\ IsLeastOf(n, seenArtist[id])
    /\ \A row \in Songs : row.apple_song_id \in SongIds
    /\ \A id \in SongIds :
          LET rows == {row \in Songs : row.apple_song_id = id}
          IN  IF seenSong[id] = {} THEN rows = {}
              ELSE \E t \in seenSong[id] :
                      /\ rows = {[apple_song_id |-> id, song_title |-> t]}
                      /\ IsLeastOf(t, seenSong[id])
    /\ save_music_data_to_db(EmptyDb, <<RecZed, RecAbba>>, TRUE).Artists
          = {[apple_artist_id |-> "a1", artist_name |-> Abba]}
    /\ save_music_data_to_db(EmptyDb, <<RecAbba, RecZed>>, TRUE).Artists
          = {[apple_artist_id |-> "a1", artist_name |-> Abba]}

\* Both "Zed" and "Abba" (and its prefix "Ab") were observed for artist a1 and
\* two titles for song s1; the smallest of each is what is stored.
C1_Witness ==
    /\ seenArtist["a1"] = {Zed, Abba, Ab}
    /\ [apple_artist_id |-> "a1", artist_name |-> Ab] \in Artists
    /\ seenArtist["a2"] = {Zed, Abba}
    /\ [apple_artist_id |-> "a2", artist_name |-> Abba] \in Artists
    /\ seenSong["s1"] = {Zed, Abba}
    /\ [apple_song_id |-> "s1", song_title |-> Abba] \in Songs

\* C2: a call of the writer that repeats the batch of the call before it
\* leaves the store as it found it.
C2_RerunChangesNothing == phase = "rerun" => CurrentDb = prior

ChartKeyUnique ==
    \A r1, r2 \in MusicTop100 : ChartKey(r1) = ChartKey(r2) => r1 = r2

ChartRowsKept == \A row \in MusicTop100 : row \in MusicTop100'

\* C3: there is at most one MusicTop100 row per (platform, region, rank,
\* date), and no step changes or removes an existing row: a record whose key
\* is already present leaves the first row as it was.
C3_OneRowPerKeyFirstWins == []ChartKeyUnique /\ [][ChartRowsKept]_vars

\* A record for song s2 was processed (its title is stored) but the only chart
\* row is the one song s1 wrote first: the later record hit the same key.
C3_Witness ==
    /\ Cardinality(MusicTop100) = 1
    /\ \E row \in MusicTop100 : row.apple_song_id = "s1" /\ row.song_url = "u1"
    /\ \E row \in Songs : row.apple_song_id = "s2"

\* C4: starting from an empty store, no MusicGenres row ever has the excluded
\* genre id.
C4_NoLinkToExcludedGenre ==
    \A link \in MusicGenres : link.genre_id # EXCLUDE_GENRE_ID

\* The excluded genre was processed for a song that has links to other genres.
C4_Witness ==
    /\ \E g \in Genres : g.genre_id = EXCLUDE_GENRE_ID
    /\ \E i \in 1..Len(lastBatch) :
          /\ lastBatch[i].apple_song_id = "s1"
          /\ lastBatch[i].parsed_genres.items = <<TagJazz6, TagMusic34>>
    /\ [apple_song_id |-> "s1", genre_id |-> 6] \in MusicGenres

\* A tag that carries the excluded id and a name.
IsSentinelTag(tag) ==
    /\ tag.isdict
    /\ tag.name # ""
    /\ \/ tag.genreId.kind = "int" /\ tag.genreId.num = EXCLUDE_GENRE_ID
       \/ /\ tag.genreId.kind = "str"
          /\ \E pre, post \in SeqsUpTo({" "}, 1), sign \in {<<>>, <<"+">>} :
                tag.genreId.chars = pre \o sign \o <<"3", "4">> \o post

\* A tag whose processing raises out of the tag loop: its id is a value int()
\* does not accept.
RaisesOutOfLoop(tag) ==
    tag.isdict /\ tag.name # "" /\ tag.genreId.kind = "list"

\* C5 as claimed: whenever a tag with the excluded id and a name is on a
\* record of the batch, Genres holds a row with the excluded id after the call.
C5_SentinelAlwaysInGenres ==
    (phase # "earlier"
       /\ \E i \in 1..Len(lastBatch) :
             \E j \in 1..Len(lastBatch[i].parsed_genres.items) :
                IsSentinelTag(lastBatch[i].parsed_genres.items[j]))
    => \E g \in Genres : g.genre_id = EXCLUDE_GENRE_ID

\* C5, the part that holds: whenever a tag with the excluded id and a name is
\* on a record that has a song id and a list of tags, and the tag loop reaches
\* it (no earlier tag of that record raises out of the loop), then after the
\* call Genres holds a row with the excluded id or a row of another id that
\* holds the tag's name.
C5_SentinelInGenresWhenReached ==
    phase # "earlier" =>
      \A i \in 1..Len(lastBatch) :
        LET r == lastBatch[i]
            tags == r.parsed_genres.items
        IN  \A j \in 1..Len(tags) :
              (/\ IsSentinelTag(tags[j])
               /\ r.apple_song_id # NoneVal
               /\ r.parsed_genres.islist
               /\ \A k \in 1..(j - 1) : ~RaisesOutOfLoop(tags[k]))
              => \E g \in Genres :
                    g.genre_id = EXCLUDE_GENRE_ID \/ g.genre_name = tags[j].name

\* The call found an empty Genres table, its batch carried the excluded tag
\* after another tag, and the excluded genre is now in Genres.
C5_Witness ==
    /\ phase = "run"
    /\ prior.Genres = {}
    /\ \E i \in 1..Len(lastBatch) :
          /\ lastBatch[i].apple_song_id = "s2"
          /\ lastBatch[i].parsed_genres.items = <<TagBadStr, TagMusic34>>
    /\ \E g \in Genres : g.genre_id = EXCLUDE_GENRE_ID /\ g.genre_name = "Music"

\* The id of a tag is numeric: an integer, or a string that is an integer
\* literal.
NumericId(raw) ==
    \/ raw.kind = "int"
    \/ /\ raw.kind = "str"
       /\ LET body == SelectSeq(raw.chars, LAMBDA c : c # " ")
              digits == IF body # <<>> /\ Head(body) \in {"+", "-"}
                        THEN Tail(body) ELSE body
          IN  /\ digits # <<>> /\ \A k \in 1..Len(digits) : IsDigit(digits[k])
              /\ \A i, j, k \in 1..Len(raw.chars) :
                    (i < j /\ j < k /\ raw.chars[i] # " " /\ raw.chars[k] # " ")
                    => raw.chars[j] # " "

WithoutNonNumericTags(r) ==
    [r EXCEPT !.parsed_genres.items =
        SelectSeq(r.parsed_genres.items,
                  LAMBDA tag : ~tag.isdict \/ NumericId(tag.genreId))]

\* C6: a tag whose id is not numeric creates no row, and the other tags of
\* its record are processed as if it were not there: the call leaves the
\* store that the batch without those tags would have left.
C6_NonNumericTagSkippedAlone ==
    phase # "earlier" =>
      CurrentDb = save_music_data_to_db(
                     prior, [i \in 1..Len(lastBatch) |->
                               WithoutNonNumericTags(lastBatch[i])], TRUE)

(***************************************************************************)
(* Properties of the chart fetch (SpecScrape).                             *)
(***************************************************************************)
HasResultsList(r) ==
    /\ r.net = "ok" /\ r.json = "object"
    /\ r.feed.kind = "dict" /\ r.feed.results.kind = "list"

\* The number of objects among the first i entries.
ObjectsUpTo(items, i) == Cardinality({j \in 1..i : items[j].isdict})

\* C7 as claimed: for every response with a feed object and a results list
\* the fetch returns at most 100 records, in the order of the list, and the
\* i-th returned record, counting from 0, has rank i+1.
C7_RankIsIndexAmongReturned ==
    (scraped.called /\ HasResultsList(served)) =>
      /\ Len(scraped.records) <= 100
      /\ \A k \in 1..Len(scraped.records) : scraped.records[k].rank = k

\* C7 as amended: for every response with a feed object and a results list
\* the fetch returns at most 100 records, one for each object among the first
\* 100 entries, in the order of the list, and every returned record has as
\* rank the 1-based position of its entry in the results list (so the i-th
\* returned record, from 0, has a rank of at least i+1, and exactly i+1 when
\* no entry before it was skipped for not being an object).
C7_RankIsPositionInResults ==
    (scraped.called /\ HasResultsList(served)) =>
      LET items == served.feed.results.items
          n == IF Len(items) < 100 THEN Len(items) ELSE 100
          out == scraped.records
      IN  /\ Len(out) <= 100
          /\ Len(out) = ObjectsUpTo(items, n)
          /\ \A k \in 1..Len(out) :
                LET i == out[k].rank
                IN  /\ i \in k..n
                    /\ items[i].isdict
                    /\ ObjectsUpTo(items, i) = k
                    /\ out[k].apple_song_id = items[i].id
                    /\ out[k].song_title = items[i].name
                    /\ out[k].parsed_genres = items[i].genres

\* The fetch was given 101 entries, the first of them no object: it returned
\* 99 records, the first with rank 2 and the last with rank 100.
C7_Witness ==
    /\ scraped.called /\ HasResultsList(served)
    /\ Len(served.feed.results.items) = 101
    /\ ~served.feed.results.items[1].isdict
    /\ Len(scraped.records) = 99
    /\ scraped.records[1].rank = 2
    /\ scraped.records[99].rank = 100

\* C8: for every response whose body lacks the feed object or the results
\* list (absent, of the wrong type, or a body that is no JSON object), and for
\* every network or decoding failure, the fetch returns an empty record list,
\* and no exception escapes to the caller.
C8_FailureGivesEmptyList ==
    (scraped.called /\ ~HasResultsList(served)) =>
      scraped.records = <<>> /\ scraped.raised = "none"

\* The fetch was given a body that is valid JSON but no object (data.get
\* raises AttributeError), and returned the empty list.
C8_Witness ==
    /\ scraped.called
    /\ served.net = "ok" /\ served.json = "other"
    /\ scraped.records = <<>> /\ scraped.raised = "none"

(***************************************************************************)
(* Properties of the two jobs (SpecJobs).                                  *)
(***************************************************************************)
RECURSIVE Concat(_)
Concat(seqs) == IF seqs = <<>> THEN <<>> ELSE Head(seqs) \o Concat(Tail(seqs))

IsPrefix(s, t) == Len(s) <= Len(t) /\ s = SubSeq(t, 1, Len(s))

\* The driver has left the region loop and passed the call of the writer.
PastSave == drv_pc = "finish" \/ (drv_pc = "exited" /\ drv_exit = 0)

\* C9 as claimed: in one run of the driver every configured region is fetched
\* exactly once, in list order, whatever earlier regions returned, and the
\* writer is invoked once per run, only after the last region was fetched,
\* with the concatenation of all regions' records.
C9_WriterInvokedOncePerRun ==
    /\ IsPrefix(fetched, REGION_CODES)
    /\ save_calls # <<>> => fetched = REGION_CODES
    /\ PastSave =>
          /\ fetched = REGION_CODES
          /\ save_calls = <<Concat(region_results)>>

\* C9 as amended: in one run of the driver every configured region is
\* fetched exactly once, in list order, whatever earlier regions returned,
\* and the writer is invoked at most once per run, only after the last region
\* was fetched, with the concatenation of all regions' records: once when at
\* least one region returned a record, and not at all when none did.
C9_WriterInvokedOnceIfAnyData ==
    /\ IsPrefix(fetched, REGION_CODES)
    /\ Len(region_results) = Len(fetched)
    /\ Len(save_calls) <= 1
    /\ save_calls # <<>> =>
          /\ fetched = REGION_CODES
          /\ save_calls[1] = Concat(region_results)
          /\ save_calls[1] # <<>>
    /\ PastSave =>
          /\ fetched = REGION_CODES
          /\ (Len(save_calls) = 1) <=> (Concat(region_results) # <<>>)

\* A run in which the first region returned nothing and the last one did:
\* the driver went on, and called the writer once with the last region's
\* records.
C9_Witness ==
    /\ drv_pc = "exited" /\ drv_exit = 0
    /\ fetched = REGION_CODES
    /\ region_results[1] = <<>>
    /\ region_results[Len(REGION_CODES)] # <<>>
    /\ save_calls = <<region_results[Len(REGION_CODES)]>>

\* C10: every setup error (missing data directory for the store, missing
\* key file, missing spreadsheet) is fatal: the process that reported it
\* terminates with a non-zero exit status, in the scraper and in the
\* publisher.
C10_SetupErrorIsFatal ==
    /\ (drv_pc = "exited" /\ drv_reported # {}) => drv_exit # 0
    /\ (pub_pc = "exited"
        /\ pub_reported \cap {"data_dir", "key_file", "spreadsheet"} # {})
       => pub_exit # 0

(***************************************************************************)
(* Properties of the writer under errors (SpecMixed).                      *)
(***************************************************************************)
\* C1: after any sequence of calls of the writer over any batches, the name
\* stored for an artist id is the lexicographically smallest of the names
\* observed so far for that id, and likewise the title stored for a song id:
\* no text name observed for the id is smaller than the stored one.
C1_StoredNameIsLeastOfAnyBatches ==
    /\ \A row \in Artists :
          \A n \in seenArtist[row.apple_artist_id] :
             IsStr(n) => LexLeq(row.artist_name, n)
    /\ \A row \in Songs :
          \A t \in seenSong[row.apple_song_id] :
             IsStr(t) => LexLeq(row.song_title, t)

\* C11: an error raised while processing one record never aborts the batch:
\* every record of the batch that raises no error itself (its names are text)
\* is processed and its writes are committed, so its chart key has a row in
\* MusicTop100 after the call.
C11_RecordErrorNeverAbortsBatch ==
    phase = "run" =>
      \A i \in 1..Len(lastBatch) :
        (IsStr(lastBatch[i].artist_name) /\ IsStr(lastBatch[i].song_title))
        => \E row \in MusicTop100 : ChartKey(row) = ChartKey(lastBatch[i])

(***************************************************************************)
(* The observation date of one run of the driver (SpecJobs).               *)
(***************************************************************************)
\* C12: all records produced in one run of the driver, across all regions,
\* carry the same observation date, even when the calendar day changes while
\* the run iterates over the regions.
C12_OneDatePerRun ==
    \A i, j \in 1..Len(all_scraped_data) :
        all_scraped_data[i].date = all_scraped_data[j].date

(***************************************************************************)
(* The life cycle of the rows (SpecMixed).                                 *)
(***************************************************************************)
LexLess(a, b) == LexLeq(a, b) /\ a # b

\* A row of a write-once table is in the table after the step, unchanged.
WriteOnce(before, after) == \A row \in before : row \in after

\* A row of Artists or Songs is still there after the step, under its id,
\* with the same name or a strictly smaller one.
ArtistRowsOnlyLowered ==
    \A row \in Artists :
        \E new \in Artists' :
            /\ new.apple_artist_id = row.apple_artist_id
            /\ new.artist_name = row.artist_name
                  \/ LexLess(new.artist_name, row.artist_name)

SongRowsOnlyLowered ==
    \A row \in Songs :
        \E new \in Songs' :
            /\ new.apple_song_id = row.apple_song_id
            /\ new.song_title = row.song_title
                  \/ LexLess(new.song_title, row.song_title)

OneRowPerId ==
    /\ \A r1, r2 \in Artists : r1.apple_artist_id = r2.apple_artist_id => r1 = r2
    /\ \A r1, r2 \in Songs : r1.apple_song_id = r2.apple_song_id => r1 = r2

\* C13: across every step between committed store states no Artists, Songs,
\* MusicTop100, Genres or MusicGenres row is removed; an existing Artists or
\* Songs row changes only in its name, and only to a strictly smaller string;
\* existing MusicTop100, Genres and MusicGenres rows are never modified.
C13_RowsAppendMostly ==
    /\ []OneRowPerId
    /\ [][/\ ArtistRowsOnlyLowered
          /\ SongRowsOnlyLowered
          /\ WriteOnce(MusicTop100, MusicTop100')
          /\ WriteOnce(Genres, Genres')
          /\ WriteOnce(MusicGenres, MusicGenres')]_vars

\* The observed call found rows in every table, lowered the artist's name
\* from Zed to Abba and the song's title from Zed to Ab, and added a chart
\* row.
C13_Witness ==
    /\ phase = "run"
    /\ [apple_artist_id |-> "a1", artist_name |-> Zed] \in prior.Artists
    /\ [apple_artist_id |-> "a1", artist_name |-> Abba] \in Artists
    /\ [apple_song_id |-> "s1", song_title |-> Zed] \in prior.Songs
    /\ [apple_song_id |-> "s1", song_title |-> Ab] \in Songs
    /\ prior.Genres # {} /\ prior.MusicGenres # {}
    /\ Cardinality(prior.MusicTop100) = 1
    /\ Cardinality(MusicTop100) = 2

(***************************************************************************)
(* Referential integrity of the links (Spec).                              *)
(***************************************************************************)
\* C14: in every reachable store state every MusicGenres row refers to a
\* genre id that has a row in Genres; when the Genres insert for a tag was
\* ignored because another genre id holds the same name, no link row for the
\* tag's id is created.
C14_EveryLinkHasItsGenre ==
    \A link \in MusicGenres : \E g \in Genres : g.genre_id = link.genre_id

\* The observed call started from an empty store with one record for s1
\* that carries the name Music twice: (34, Music) took the name, the insert
\* of (6, Music) was ignored, and there is no link to 6.
C14_Witness ==
    /\ phase = "run"
    /\ prior = EmptyDb
    /\ Len(lastBatch) = 1
    /\ lastBatch[1].apple_song_id = "s1"
    /\ lastBatch[1].parsed_genres.items = <<TagMusic34, TagMusic6>>
    /\ Genres = {[genre_id |-> 34, genre_name |-> "Music", genre_url |-> "u"]}
    /\ MusicGenres = {}

====
